---- MODULE Spec2Model ----
(***************************************************************************)
(* The AudioRecorder component of voice-to-instrument: the React state of  *)
(* the component, the async handlers startRecording, stopRecording,        *)
(* processAudio, playSound and stopSound cut at their await points, the    *)
(* two buttons of the render, and the platform resources (Audio.Recording, *)
(* Audio.Sound, the artifact file) the handlers act on.                    *)
(*                                                                         *)
(* The repository holds three revisions of the component:                  *)
(*   "basic"   src/unnamed/part_000 lines 280-434 (no upload)              *)
(*   "upload"  src/frontend/components/AudioRecorder.tsx                   *)
(*   "tracked" src/unnamed/part_000 lines 1-278 (error state, onError)     *)
(* The variable rev fixes the revision of a behaviour.                     *)
(***************************************************************************)
EXTENDS Integers, Sequences, FiniteSets, Bags, TLC

\* ---------------------------------------------------------------- bounds
\* handler invocations (button presses, calls) in one behaviour
MaxCalls == 5

\* ---------------------------------------------------------------- values
Revisions == {"basic", "upload", "tracked"}

\* useState(null) for recording and sound
NoRecording == 0
NoSound == 0
\* useState<string | null>(null) for recordingUri and error
NullUri == "<null>"
NoError == <<>>
\* a step that writes nothing with console.error
NoLog == <<>>

\* recording.getURI(): the file of the recording, null, or an empty string
FileUri(r) == "file:///rec" \o ToString(r) \o ".wav"
GetURIResults(r) == {FileUri(r), NullUri, ""}

\* JavaScript truthiness of a string | null
Truthy(s) == s # NullUri /\ s # ""

\* `uri || null`
OrNull(s) == IF Truthy(s) THEN s ELSE NullUri

\* ------------------------------------------------------------- responses
Absent == "<absent>"
ServerError == "low confidence"
\* Base64 text of the bytes 'ABC' and of the bytes 'AB'
MidiABC == <<"Q", "U", "J", "D">>
MidiAB == <<"Q", "U", "I", "=">>
NoMidi == <<>>

\* the decoded body of a response; json = FALSE is a body that is not JSON
NotJson == [json |-> FALSE, error |-> Absent, midi |-> NoMidi]
Bodies ==
    { NotJson,
      [json |-> TRUE, error |-> Absent, midi |-> NoMidi],
      [json |-> TRUE, error |-> Absent, midi |-> MidiABC],
      [json |-> TRUE, error |-> "", midi |-> MidiAB],
      [json |-> TRUE, error |-> ServerError, midi |-> MidiABC] }
Statuses == {200, 500}
Responses == [status : Statuses, body : Bodies]
NoResponse == [status |-> 0, body |-> NotJson]

\* response.ok
Ok(resp) == resp.status >= 200 /\ resp.status <= 299

\* result.error / result.midi as conditions
HasError(body) == body.error # Absent /\ body.error # ""
HasMidi(body) == body.midi # NoMidi

\* --------------------------------------------------------------- Base64
B64Alphabet ==
    <<"A","B","C","D","E","F","G","H","I","J","K","L","M","N","O","P",
      "Q","R","S","T","U","V","W","X","Y","Z","a","b","c","d","e","f",
      "g","h","i","j","k","l","m","n","o","p","q","r","s","t","u","v",
      "w","x","y","z","0","1","2","3","4","5","6","7","8","9","+","/">>

B64Value(c) ==
    IF c = "=" THEN 0
    ELSE (CHOOSE i \in 1..Len(B64Alphabet) : B64Alphabet[i] = c) - 1

\* the padding ignored: every group gives three bytes
B64Group_NoPadding(g) ==
    LET n == ((B64Value(g[1]) * 64 + B64Value(g[2])) * 64 + B64Value(g[3])) * 64
             + B64Value(g[4])
    IN  <<n \div 65536, (n \div 256) % 256, n % 256>>

\* the bytes of one group of four Base64 characters
B64Group(g) ==
    LET n == ((B64Value(g[1]) * 64 + B64Value(g[2])) * 64 + B64Value(g[3])) * 64
             + B64Value(g[4])
        b1 == n \div 65536
        b2 == (n \div 256) % 256
        b3 == n % 256
    IN  IF g[3] = "=" THEN <<b1>>
        ELSE IF g[4] = "=" THEN <<b1, b2>>
        ELSE <<b1, b2, b3>>

RECURSIVE Base64Decode(_)
\* FileSystem.EncodingType.Base64: the bytes the text stands for
Base64Decode(s) ==
    IF Len(s) < 4 THEN <<>>
    ELSE B64Group(SubSeq(s, 1, 4)) \o Base64Decode(SubSeq(s, 5, Len(s)))

\* ------------------------------------------------------------- messages
\* `${message}: ${err.message || 'Unknown error'}`
ErrorMessage(message, errMessage) ==
    <<message, ": ", IF errMessage = "" THEN "Unknown error" ELSE errMessage>>

\* console.error(message, err) of the revisions without handleError
ConsoleMessage(message, errMessage) == <<message, errMessage>>

Contains(msg, part) == \E k \in 1..Len(msg) : msg[k] = part

PermissionDenied == "Permission to record audio was not granted"
StatusError(resp) == "Server responded with status: " \o ToString(resp.status)
\* err.message of a rejection of the platform or the network
PlatformFailure == "platform failure"

\* ------------------------------------------------------------------ state
VARIABLES
    rev,             \* the revision of the component this behaviour runs
    recording,       \* useState: the Audio.Recording held, or NoRecording
    sound,           \* useState: the Audio.Sound held, or NoSound
    isRecording,     \* useState
    isPlaying,       \* useState
    recordingUri,    \* useState: string | null
    isProcessing,    \* useState (always FALSE in "basic")
    error,           \* useState of "tracked": the message shown, or NoError
    tasks,           \* the bag of handler invocations suspended at an await
    calls,           \* handler invocations so far
    micPermission,   \* the platform's microphone permission
    liveRecordings,  \* Audio.Recording objects created and not stopAndUnloaded
    loadedSounds,    \* Audio.Sound objects created and not unloaded
    playingSounds,   \* loaded sounds that are playing
    listeners,       \* sounds with the playback-status callback registered
    pendingUnloads,  \* unloadAsync calls of the cleanup effect not yet done
    nextRecording,   \* Audio.Recording objects created so far
    nextSound,       \* Audio.Sound objects created so far
    artifact,        \* the bytes of <documentDirectory>recording.mid
    mounted,         \* the component is mounted
    lastRun,         \* the latest run of processAudio that was called directly
    returned,        \* the handler the latest step called and that returned at
                     \* its guard, "none" otherwise
    log,             \* what the latest step wrote with console.error, or NoLog
    reports,         \* how often the latest step invoked the onError prop
                     \* (of a parent that passes one)
    effects          \* what the latest step of stopRecording called after its
                     \* await, in the order of the calls

react == <<recording, sound, isRecording, isPlaying, recordingUri, isProcessing, error>>
platform == <<micPermission, liveRecordings, loadedSounds, playingSounds, listeners,
              pendingUnloads, nextRecording, nextSound, artifact>>
ghost == <<returned, log, reports, effects, lastRun>>
vars == <<rev, react, tasks, calls, mounted, platform, ghost>>

Idle == [op |-> "none", pc |-> "idle", rec |-> NoRecording, snd |-> NoSound,
         uri |-> NullUri, resp |-> NoResponse]

\* the step called none of setRecordingUri, onRecordingComplete, fetch
NoEffects == <<>>

\* no run of processAudio recorded yet
NoRun == [uri |-> NullUri, resp |-> NoResponse, ok |-> FALSE, again |-> FALSE,
          artifact |-> <<>>, react |-> <<>>]

Init ==
    /\ rev \in Revisions
    /\ recording = NoRecording
    /\ sound = NoSound
    /\ isRecording = FALSE
    /\ isPlaying = FALSE
    /\ recordingUri = NullUri
    /\ isProcessing = FALSE
    /\ error = NoError
    /\ tasks = EmptyBag
    /\ calls = 0
    /\ micPermission = "undetermined"
    /\ liveRecordings = {}
    /\ loadedSounds = {}
    /\ playingSounds = {}
    /\ listeners = {}
    /\ pendingUnloads = {}
    /\ nextRecording = 0
    /\ nextSound = 0
    /\ artifact = <<>>
    /\ mounted = TRUE
    /\ lastRun = NoRun
    /\ returned = "none"
    /\ log = NoLog
    /\ reports = 0
    /\ effects = NoEffects

\* a handler reaches its first await / its next await / its end
Spawn(new) == tasks' = tasks (+) SetToBag({new})
Continue(t, new) == tasks' = (tasks (-) SetToBag({t})) (+) SetToBag({new})
Finish(t) == tasks' = tasks (-) SetToBag({t})

Suspended == BagToSet(tasks)

Tracked == rev = "tracked"
Uploads == rev # "basic"

\* setError(null), which only "tracked" has
ClearError == IF Tracked THEN NoError ELSE error

\* handleError without setError: the failure is logged and passed to onError
\* and the error state stays as it is
handleError_NoState(message, errMessage) ==
    /\ log' = IF Tracked THEN ErrorMessage(message, errMessage)
                         ELSE ConsoleMessage(message, errMessage)
    /\ UNCHANGED error
    /\ reports' = IF Tracked THEN 1 ELSE 0
    /\ effects' = NoEffects

\* the catch blocks: handleError(message, err) in "tracked",
\* console.error(message, err) in the other revisions
handleError(message, errMessage) ==
    /\ log' = IF Tracked THEN ErrorMessage(message, errMessage)
                         ELSE ConsoleMessage(message, errMessage)
    /\ error' = IF Tracked THEN ErrorMessage(message, errMessage) ELSE error
    /\ reports' = IF Tracked THEN 1 ELSE 0
    /\ effects' = NoEffects

\* setSound(s); in "tracked" the effect on [sound] runs the cleanup of the
\* previous render, which calls unloadAsync on the sound it closed over; an
\* unmounted component renders no more and runs no effect
SetSound(s) ==
    /\ sound' = s
    /\ pendingUnloads' =
          IF Tracked /\ mounted /\ sound # NoSound /\ sound # s
          THEN pendingUnloads \cup {sound} ELSE pendingUnloads

\* ------------------------------------------------------- startRecording
\* startRecording up to its first await, Audio.requestPermissionsAsync();
\* snd is the sound of the render the handler closed over
StartRecording ==
    /\ Spawn([Idle EXCEPT !.op = "startRecording", !.pc = "perm", !.snd = sound])
    /\ returned' = "none"
    /\ log' = NoLog /\ reports' = 0 /\ effects' = NoEffects
    /\ calls < MaxCalls
    /\ calls' = calls + 1
    /\ UNCHANGED <<mounted, lastRun>>
    /\ UNCHANGED <<rev, react, platform>>

\* the answers the platform can give to a permission request
PermissionAnswers ==
    IF micPermission = "undetermined" THEN {"granted", "denied"} ELSE {micPermission}

\* `if (permission.status !== 'granted') throw`, which only "tracked" has
PermissionRefused(status) == Tracked /\ status # "granted"

\* requestPermissionsAsync settles
PermissionSettles(t) ==
    /\ t.op = "startRecording" /\ t.pc = "perm"
    /\ \/ \E status \in PermissionAnswers :
            /\ micPermission' = status
            /\ IF PermissionRefused(status)
               THEN /\ handleError("Failed to start recording", PermissionDenied)
                    /\ Finish(t)
               ELSE /\ Continue(t, [t EXCEPT !.pc = "mode"])
                    /\ UNCHANGED error /\ log' = NoLog /\ reports' = 0 /\ effects' = NoEffects
       \/ /\ handleError("Failed to start recording", PlatformFailure)
          /\ Finish(t)
          /\ UNCHANGED micPermission
    /\ UNCHANGED <<rev, recording, sound, isRecording, isPlaying, recordingUri,
                   isProcessing, liveRecordings, loadedSounds, playingSounds,
                   listeners, pendingUnloads, nextRecording, nextSound, artifact>>
    /\ returned' = "none"
    /\ UNCHANGED <<calls, mounted, lastRun>>

\* Audio.setAudioModeAsync settles
AudioModeSettles(t) ==
    /\ t.op = "startRecording" /\ t.pc = "mode"
    /\ \/ /\ Continue(t, [t EXCEPT !.pc = "create"])
          /\ UNCHANGED error /\ log' = NoLog /\ reports' = 0 /\ effects' = NoEffects
       \/ /\ handleError("Failed to start recording", PlatformFailure)
          /\ Finish(t)
    /\ UNCHANGED <<rev, recording, sound, isRecording, isPlaying, recordingUri,
                   isProcessing, platform>>
    /\ returned' = "none"
    /\ UNCHANGED <<calls, mounted, lastRun>>

\* The platform prepares a recorder only with the microphone permission and
\* only when no other Audio.Recording is prepared; otherwise createAsync rejects.
CanCreateRecording ==
    /\ micPermission = "granted"
    /\ liveRecordings = {}
    
\* Audio.Recording.createAsync settles
CreateRecordingSettles(t) ==
    /\ t.op = "startRecording" /\ t.pc = "create"
    /\ \/ /\ CanCreateRecording
          /\ nextRecording' = nextRecording + 1
          /\ liveRecordings' = liveRecordings \cup {nextRecording + 1}
          /\ recording' = nextRecording + 1
          /\ isRecording' = TRUE
          /\ recordingUri' = NullUri
          /\ error' = ClearError
          /\ log' = NoLog /\ reports' = 0 /\ effects' = NoEffects
       \/ /\ handleError("Failed to start recording", PlatformFailure)
          /\ UNCHANGED <<nextRecording, liveRecordings, recording, isRecording,
                         recordingUri>>
    /\ Finish(t)
    /\ UNCHANGED <<rev, sound, isPlaying, isProcessing, micPermission, loadedSounds,
                   playingSounds, listeners, pendingUnloads, nextSound, artifact>>
    /\ returned' = "none"
    /\ UNCHANGED <<calls, mounted, lastRun>>

\* -------------------------------------------------------- stopRecording
\* the guard left out: stopRecording goes on without a recording
NoRecordingHeld_Never(rec) == FALSE

\* `if (!recording) return;`
NoRecordingHeld(rec) == rec = NoRecording

\* stopRecording up to its first await, recording.stopAndUnloadAsync()
StopRecording ==
    /\ IF NoRecordingHeld(recording)
       THEN /\ returned' = "stopRecording"
            /\ UNCHANGED tasks
       ELSE /\ returned' = "none"
            /\ Spawn([Idle EXCEPT !.op = "stopRecording", !.pc = "stop",
                                       !.rec = recording])
    /\ log' = NoLog /\ reports' = 0 /\ effects' = NoEffects
    /\ calls < MaxCalls
    /\ calls' = calls + 1
    /\ UNCHANGED <<mounted, lastRun>>
    /\ UNCHANGED <<rev, react, platform>>

\* `if (uri !== null)`: an empty URI passes
HasUri_NotNull(uri) == uri # NullUri

\* `if (uri)`: the recording is handed to onRecordingComplete and processAudio
HasUri(uri) == Truthy(uri)

\* onRecordingComplete called after processAudio has issued the fetch
StopEffects_UploadFirst(uri) ==
    <<[call |-> "setRecordingUri", uri |-> OrNull(uri)]>>
    \o (IF HasUri(uri) /\ Uploads
        THEN <<[call |-> "fetch", uri |-> uri]>> ELSE <<>>)
    \o (IF HasUri(uri)
        THEN <<[call |-> "onRecordingComplete", uri |-> uri]>> ELSE <<>>)

\* what stopRecording calls once stopAndUnloadAsync has resolved and getURI
\* returned uri: setRecordingUri(uri || null); under `if (uri)` the
\* onRecordingComplete of the parent, then processAudio(uri), which runs up to
\* its fetch
StopEffects(uri) ==
    <<[call |-> "setRecordingUri", uri |-> OrNull(uri)]>>
    \o (IF HasUri(uri)
        THEN <<[call |-> "onRecordingComplete", uri |-> uri]>> ELSE <<>>)
    \o (IF HasUri(uri) /\ Uploads
        THEN <<[call |-> "fetch", uri |-> uri]>> ELSE <<>>)

\* setIsRecording(false) alone: the handle stays in the state
RecordingCleared_FlagOnly ==
    /\ isRecording' = FALSE
    /\ UNCHANGED recording

\* setRecording(null); setIsRecording(false);
RecordingCleared ==
    /\ recording' = NoRecording
    /\ isRecording' = FALSE

\* stopAndUnloadAsync settles; it resolves only for a recording that is still
\* prepared. On resolution the handler runs on to the first await of
\* processAudio (the fetch), or to its end in "basic" and for an empty URI.
StopAndUnloadSettles(t) ==
    /\ t.op = "stopRecording" /\ t.pc = "stop"
    /\ \/ /\ t.rec \in liveRecordings
          /\ liveRecordings' = liveRecordings \ {t.rec}
          /\ RecordingCleared
          /\ \E uri \in GetURIResults(t.rec) :
                /\ recordingUri' = OrNull(uri)
                /\ IF HasUri(uri) /\ Uploads
                   THEN /\ isProcessing' = TRUE
                        /\ error' = ClearError
                        /\ Continue(t, [t EXCEPT !.pc = "fetch", !.uri = uri])
                   ELSE /\ Finish(t)
                        /\ UNCHANGED <<isProcessing, error>>
                /\ effects' = StopEffects(uri)
          /\ log' = NoLog /\ reports' = 0
       \/ /\ handleError("Failed to stop recording", PlatformFailure)
          /\ Finish(t)
          /\ UNCHANGED <<liveRecordings, recording, isRecording, recordingUri,
                         isProcessing>>
    /\ UNCHANGED <<rev, sound, isPlaying, micPermission, loadedSounds, playingSounds,
                   listeners, pendingUnloads, nextRecording, nextSound, artifact>>
    /\ returned' = "none"
    /\ UNCHANGED <<calls, mounted, lastRun>>

\* --------------------------------------------------------- processAudio
\* `if (!response.ok) throw`, which only "tracked" has
ResponseRefused(resp) == Tracked /\ ~Ok(resp)

\* the recordings processAudio is called with directly
RunUris == {FileUri(1), FileUri(2)}

\* processAudio(uri) up to its first await, the fetch; it is called when the
\* run before it has returned, as `await processAudio(uri)` does
ProcessAudio(uri) ==
    /\ Uploads
    /\ tasks = EmptyBag
    /\ isProcessing' = TRUE
    /\ error' = ClearError
    /\ Spawn([Idle EXCEPT !.op = "processAudio", !.pc = "fetch", !.uri = uri])
    /\ returned' = "none"
    /\ log' = NoLog /\ reports' = 0 /\ effects' = NoEffects
    /\ calls < MaxCalls
    /\ calls' = calls + 1
    /\ UNCHANGED <<mounted, lastRun>>
    /\ UNCHANGED <<rev, recording, sound, isRecording, isPlaying, recordingUri,
                   platform>>

\* the handler processAudio runs in: stopRecording awaits it, or it was
\* called directly
InProcessAudio(t) == t.op \in {"stopRecording", "processAudio"}

\* the run that ends with t repeats the run before it: that one ended
\* without a failure and had the same URI and the same response
RunsAgain(t) == lastRun.ok /\ lastRun.uri = t.uri /\ lastRun.resp = t.resp

\* lastRun after the step of t: a run called directly that ended in this step
\* is recorded with its input, its response and the state it left
RunRecorded(t) ==
    lastRun' = IF t.op = "processAudio" /\ tasks' = tasks (-) SetToBag({t})
               THEN [uri |-> t.uri, resp |-> t.resp, ok |-> log' = NoLog,
                     again |-> RunsAgain(t),
                     artifact |-> artifact', react |-> react']
               ELSE lastRun

\* `finally` left out: isProcessing stays as it is
Finally_Missing == UNCHANGED isProcessing

\* `finally { setIsProcessing(false); }`
Finally == isProcessing' = FALSE

\* fetch settles: a response of any status, or a network failure
FetchSettles(t) ==
    /\ InProcessAudio(t) /\ t.pc = "fetch"
    /\ \/ \E resp \in Responses :
            IF ResponseRefused(resp)
            THEN /\ handleError("Failed to process audio", StatusError(resp))
                 /\ Finally
                 /\ Finish(t)
            ELSE /\ Continue(t, [t EXCEPT !.pc = "json", !.resp = resp])
                 /\ UNCHANGED <<error, isProcessing>> /\ log' = NoLog /\ reports' = 0 /\ effects' = NoEffects
       \/ /\ handleError("Failed to process audio", "Network request failed")
          /\ Finally
          /\ Finish(t)
    /\ UNCHANGED <<rev, recording, sound, isRecording, isPlaying, recordingUri,
                   platform>>
    /\ returned' = "none"
    /\ UNCHANGED <<calls, mounted>>
    /\ RunRecorded(t)

\* the check of result.error left out
ResultFailed_Ignored(body) == FALSE

\* `if (result.error)`
ResultFailed(body) == HasError(body)

\* `if (result.midi)`
ResultHasMidi(body) == HasMidi(body)

\* response.json() settles and the handler runs on to writeAsStringAsync or
\* to its end
JsonSettles(t) ==
    LET body == t.resp.body IN
    /\ InProcessAudio(t) /\ t.pc = "json"
    /\ IF ~body.json
       THEN /\ handleError("Failed to process audio", "JSON Parse error")
            /\ Finally
            /\ Finish(t)
       ELSE IF ResultFailed(body)
       THEN /\ IF Tracked
               THEN handleError("Failed to process audio", body.error)
               ELSE /\ log' = ConsoleMessage("Backend processing failed:", body.error)
                    /\ reports' = 0 /\ effects' = NoEffects
                    /\ UNCHANGED error
            /\ Finally
            /\ Finish(t)
       ELSE IF ResultHasMidi(body)
       THEN /\ Continue(t, [t EXCEPT !.pc = "write"])
            /\ UNCHANGED <<error, isProcessing>> /\ log' = NoLog /\ reports' = 0 /\ effects' = NoEffects
       ELSE /\ Finally
            /\ Finish(t)
            /\ UNCHANGED error /\ log' = NoLog /\ reports' = 0 /\ effects' = NoEffects
    /\ UNCHANGED <<rev, recording, sound, isRecording, isPlaying, recordingUri,
                   platform>>
    /\ returned' = "none"
    /\ UNCHANGED <<calls, mounted>>
    /\ RunRecorded(t)

\* the file opened for appending: the payload is added to what is there
Written_Appended(old, midi) == old \o Base64Decode(midi)

\* writeAsStringAsync(path, midi, {encoding: Base64}): the file holds the
\* decoded payload and nothing else
Written(old, midi) == Base64Decode(midi)

\* FileSystem.writeAsStringAsync settles
WriteSettles(t) ==
    /\ InProcessAudio(t) /\ t.pc = "write"
    /\ \/ /\ artifact' = Written(artifact, t.resp.body.midi)
          /\ UNCHANGED error /\ log' = NoLog /\ reports' = 0 /\ effects' = NoEffects
       \/ /\ handleError("Failed to process audio", PlatformFailure)
          /\ UNCHANGED artifact
    /\ Finally
    /\ Finish(t)
    /\ UNCHANGED <<rev, recording, sound, isRecording, isPlaying, recordingUri,
                   micPermission, liveRecordings, loadedSounds, playingSounds,
                   listeners, pendingUnloads, nextRecording, nextSound>>
    /\ returned' = "none"
    /\ UNCHANGED <<calls, mounted>>
    /\ RunRecorded(t)

\* ------------------------------------------------------------ playSound
\* the guard left out: playSound goes on without a recording URI
NoRecordingUri_Never(uri) == FALSE

\* `if (!recordingUri) return;`
NoRecordingUri(uri) == ~Truthy(uri)

\* playSound up to its first await: sound.unloadAsync() when a sound is held,
\* Audio.Sound.createAsync otherwise
PlaySound ==
    /\ IF NoRecordingUri(recordingUri)
       THEN /\ returned' = "playSound"
            /\ UNCHANGED tasks
       ELSE /\ returned' = "none"
            /\ Spawn([Idle EXCEPT !.op = "playSound",
                                       !.pc = IF sound # NoSound THEN "unload"
                                                                 ELSE "createSound",
                                       !.snd = sound,
                                       !.uri = recordingUri])
    /\ log' = NoLog /\ reports' = 0 /\ effects' = NoEffects
    /\ calls < MaxCalls
    /\ calls' = calls + 1
    /\ UNCHANGED <<mounted, lastRun>>
    /\ UNCHANGED <<rev, react, platform>>

\* what unloading the sound s does to the platform
Unloaded(s) ==
    /\ loadedSounds' = loadedSounds \ {s}
    /\ playingSounds' = playingSounds \ {s}
    /\ listeners' = listeners \ {s}

\* sound.unloadAsync() of the previous sound settles
UnloadPreviousSettles(t) ==
    /\ t.op = "playSound" /\ t.pc = "unload"
    /\ \/ /\ Unloaded(t.snd)
          /\ Continue(t, [t EXCEPT !.pc = "createSound"])
          /\ UNCHANGED <<error, isPlaying>> /\ log' = NoLog /\ reports' = 0 /\ effects' = NoEffects
       \/ /\ handleError("Failed to play sound", PlatformFailure)
          /\ isPlaying' = FALSE
          /\ Finish(t)
          /\ UNCHANGED <<loadedSounds, playingSounds, listeners>>
    /\ UNCHANGED <<rev, recording, sound, isRecording, recordingUri, isProcessing,
                   micPermission, liveRecordings, pendingUnloads, nextRecording,
                   nextSound, artifact>>
    /\ returned' = "none"
    /\ UNCHANGED <<calls, mounted, lastRun>>

\* Audio.Sound.createAsync settles
CreateSoundSettles(t) ==
    /\ t.op = "playSound" /\ t.pc = "createSound"
    /\ \/ /\ nextSound' = nextSound + 1
          /\ loadedSounds' = loadedSounds \cup {nextSound + 1}
          /\ SetSound(nextSound + 1)
          /\ isPlaying' = TRUE
          /\ error' = ClearError
          /\ Continue(t, [t EXCEPT !.pc = "play", !.snd = nextSound + 1])
          /\ log' = NoLog /\ reports' = 0 /\ effects' = NoEffects
       \/ /\ handleError("Failed to play sound", PlatformFailure)
          /\ isPlaying' = FALSE
          /\ Finish(t)
          /\ UNCHANGED <<nextSound, loadedSounds, sound, pendingUnloads>>
    /\ UNCHANGED <<rev, recording, isRecording, recordingUri, isProcessing,
                   micPermission, liveRecordings, playingSounds, listeners,
                   nextRecording, artifact>>
    /\ returned' = "none"
    /\ UNCHANGED <<calls, mounted, lastRun>>

\* newSound.playAsync() takes effect on the platform (only a loaded sound
\* starts playing) and its promise is resolved, or it rejects and the catch
\* block runs; the continuation of the await has not run yet
PlaybackStarts(t) ==
    /\ t.op = "playSound" /\ t.pc = "play"
    /\ \/ /\ t.snd \in loadedSounds
          /\ playingSounds' = playingSounds \cup {t.snd}
          /\ Continue(t, [t EXCEPT !.pc = "played"])
          /\ UNCHANGED <<error, isPlaying>> /\ log' = NoLog /\ reports' = 0 /\ effects' = NoEffects
       \/ /\ handleError("Failed to play sound", PlatformFailure)
          /\ isPlaying' = FALSE
          /\ Finish(t)
          /\ UNCHANGED playingSounds
    /\ UNCHANGED <<rev, recording, sound, isRecording, recordingUri, isProcessing,
                   micPermission, liveRecordings, loadedSounds, listeners,
                   pendingUnloads, nextRecording, nextSound, artifact>>
    /\ returned' = "none"
    /\ UNCHANGED <<calls, mounted, lastRun>>

\* the continuation of `await newSound.playAsync()`: the handler registers the
\* playback-status callback on the sound and ends
PlaySettles(t) ==
    /\ t.op = "playSound" /\ t.pc = "played"
    /\ listeners' = IF t.snd \in loadedSounds THEN listeners \cup {t.snd}
                                               ELSE listeners
    /\ UNCHANGED <<error, isPlaying, playingSounds>>
    /\ log' = NoLog /\ reports' = 0 /\ effects' = NoEffects
    /\ Finish(t)
    /\ UNCHANGED <<rev, recording, sound, isRecording, recordingUri, isProcessing,
                   micPermission, liveRecordings, loadedSounds, pendingUnloads,
                   nextRecording, nextSound, artifact>>
    /\ returned' = "none"
    /\ UNCHANGED <<calls, mounted, lastRun>>

\* a playing sound reaches its end: the status update with didJustFinish
\* reaches the callback, if one is registered on that sound
SoundFinishes(s) ==
    /\ s \in playingSounds
    /\ playingSounds' = playingSounds \ {s}
    /\ isPlaying' = IF s \in listeners THEN FALSE ELSE isPlaying
    /\ UNCHANGED <<rev, recording, sound, isRecording, recordingUri, isProcessing,
                   error, tasks, micPermission, liveRecordings, loadedSounds,
                   listeners, pendingUnloads, nextRecording, nextSound, artifact>>
    /\ returned' = "none"
    /\ UNCHANGED <<calls, mounted, lastRun>>
    /\ log' = NoLog /\ reports' = 0 /\ effects' = NoEffects

\* the unloadAsync the cleanup effect of "tracked" issued completes
CleanupUnloadCompletes(s) ==
    /\ s \in pendingUnloads
    /\ pendingUnloads' = pendingUnloads \ {s}
    /\ Unloaded(s)
    /\ returned' = "none"
    /\ UNCHANGED <<calls, mounted, lastRun>>
    /\ log' = NoLog /\ reports' = 0 /\ effects' = NoEffects
    /\ UNCHANGED <<rev, react, tasks, micPermission, liveRecordings, nextRecording,
                   nextSound, artifact>>

\* ------------------------------------------------------------ stopSound
\* `if (!sound) return;`
NoSoundHeld(s) == s = NoSound

\* stopSound up to its await, sound.stopAsync()
StopSound ==
    /\ IF NoSoundHeld(sound)
       THEN /\ returned' = "stopSound"
            /\ UNCHANGED tasks
       ELSE /\ returned' = "none"
            /\ Spawn([Idle EXCEPT !.op = "stopSound", !.pc = "stopSound",
                                       !.snd = sound])
    /\ log' = NoLog /\ reports' = 0 /\ effects' = NoEffects
    /\ calls < MaxCalls
    /\ calls' = calls + 1
    /\ UNCHANGED <<mounted, lastRun>>
    /\ UNCHANGED <<rev, react, platform>>

\* stopAsync without effect: the sound plays on
Stopped_Not(s) == UNCHANGED playingSounds

\* what sound.stopAsync() does to the platform: the sound s stops playing and
\* stays loaded
Stopped(s) == playingSounds' = playingSounds \ {s}

\* sound.stopAsync() settles; it resolves only for a loaded sound
StopSoundSettles(t) ==
    /\ t.op = "stopSound" /\ t.pc = "stopSound"
    /\ \/ /\ t.snd \in loadedSounds
          /\ Stopped(t.snd)
          /\ isPlaying' = FALSE
          /\ UNCHANGED error /\ log' = NoLog /\ reports' = 0 /\ effects' = NoEffects
       \/ /\ handleError("Failed to stop sound", PlatformFailure)
          /\ UNCHANGED <<playingSounds, isPlaying>>
    /\ Finish(t)
    /\ UNCHANGED <<rev, recording, sound, isRecording, recordingUri, isProcessing,
                   micPermission, liveRecordings, loadedSounds, listeners,
                   pendingUnloads, nextRecording, nextSound, artifact>>
    /\ returned' = "none"
    /\ UNCHANGED <<calls, mounted, lastRun>>

\* --------------------------------------------------------------- render
\* the record button: disabled={isProcessing}
RecordDisabled == isProcessing

\* the play button: rendered when recordingUri is set,
\* disabled={isRecording || isProcessing}
PlayRendered == Truthy(recordingUri)
PlayDisabled == isRecording \/ isProcessing

\* onPress={isRecording ? stopRecording : startRecording}
PressRecord ==
    /\ mounted
    /\ ~RecordDisabled
    /\ IF isRecording THEN StopRecording ELSE StartRecording

\* onPress={isPlaying ? stopSound : playSound}
PressPlay ==
    /\ mounted
    /\ PlayRendered
    /\ ~PlayDisabled
    /\ IF isPlaying THEN StopSound ELSE PlaySound

\* an await of a suspended handler settles, or the platform moves
Settle ==
    \/ \E t \in Suspended : PermissionSettles(t)
    \/ \E t \in Suspended : AudioModeSettles(t)
    \/ \E t \in Suspended : CreateRecordingSettles(t)
    \/ \E t \in Suspended : StopAndUnloadSettles(t)
    \/ \E t \in Suspended : FetchSettles(t)
    \/ \E t \in Suspended : JsonSettles(t)
    \/ \E t \in Suspended : WriteSettles(t)
    \/ \E t \in Suspended : UnloadPreviousSettles(t)
    \/ \E t \in Suspended : CreateSoundSettles(t)
    \/ \E t \in Suspended : PlaybackStarts(t)
    \/ \E t \in Suspended : PlaySettles(t)
    \/ \E t \in Suspended : StopSoundSettles(t)
    \/ \E s \in playingSounds : SoundFinishes(s)
    \/ \E s \in pendingUnloads : CleanupUnloadCompletes(s)

\* the component driven through its two buttons
Next == PressRecord \/ PressPlay \/ Settle

Spec == Init /\ [][Next]_vars

\* the handlers called directly, whatever the buttons are bound to
CallStartRecording == StartRecording
CallStopRecording == StopRecording
CallPlaySound == PlaySound
CallStopSound == StopSound

NextDirect ==
    \/ CallStartRecording
    \/ CallStopRecording
    \/ CallPlaySound
    \/ CallStopSound
    \/ Settle

SpecDirect == Init /\ [][NextDirect]_vars

\* processAudio called directly, one run after the other
CallProcessAudio == \E uri \in RunUris : ProcessAudio(uri)

NextSubmit ==
    \/ CallProcessAudio
    \/ \E t \in Suspended : FetchSettles(t)
    \/ \E t \in Suspended : JsonSettles(t)
    \/ \E t \in Suspended : WriteSettles(t)

SpecSubmit == Init /\ [][NextSubmit]_vars

\* the component is unmounted: in "tracked" the cleanup of the effect on
\* [sound] calls unloadAsync on the sound of the last render; the other
\* revisions have no cleanup. Handlers suspended at an await run on; nothing
\* reads the state they set from then on.
Unmount ==
    /\ mounted
    /\ mounted' = FALSE
    /\ pendingUnloads' = IF Tracked /\ sound # NoSound
                         THEN pendingUnloads \cup {sound} ELSE pendingUnloads
    /\ returned' = "none"
    /\ log' = NoLog /\ reports' = 0 /\ effects' = NoEffects
    /\ UNCHANGED <<rev, react, tasks, calls, lastRun, micPermission, liveRecordings,
                   loadedSounds, playingSounds, listeners, nextRecording, nextSound,
                   artifact>>

\* the component driven through its buttons until it is unmounted
NextLifecycle == Next \/ Unmount

SpecLifecycle == Init /\ [][NextLifecycle]_vars

\* the network and the file system answer: an upload whose fetch,
\* response.json() or writeAsStringAsync is pending does not wait forever
UploadSettles ==
    \E t \in Suspended : FetchSettles(t) \/ JsonSettles(t) \/ WriteSettles(t)

SpecLive == Init /\ [][Next]_vars /\ WF_vars(UploadSettles)

\* ================================================================ claims
\* the handler invocation t took the step: one copy of t left the bag
Stepped(t) == CopiesIn(t, tasks') < CopiesIn(t, tasks)

\* a handler invocation of the kind op reached its first await in the step
Started(op) ==
    \E t \in BagToSet(tasks') :
        /\ t.op = op
        /\ CopiesIn(t, tasks') > CopiesIn(t, tasks)
        /\ calls' = calls + 1

\* C1: the session is never Recording and Playing at once: no reachable
\* state has isRecording and isPlaying both true.
C1_NeverRecordingAndPlaying == ~(isRecording /\ isPlaying)

\* C2: at every point at most one capture resource and at most one playback
\* resource exist.
C2_AtMostOneOfEach ==
    /\ Cardinality(liveRecordings) <= 1
    /\ Cardinality(loadedSounds) <= 1

\* C2, the playback half alone: at most one Audio.Sound is loaded.
C2_AtMostOneSound == Cardinality(loadedSounds) <= 1

\* C3: when startRecording was invoked while the session held a loaded
\* sound, that sound is unloaded before Audio.Recording.createAsync gives
\* the new recording.
C3_SoundReleasedBeforeCapture ==
    [][\A t \in Suspended :
          (t.op = "startRecording" /\ Stepped(t) /\ nextRecording' = nextRecording + 1)
              => (t.snd = NoSound \/ t.snd \notin loadedSounds)]_vars

\* C4: while isProcessing is true no recording is created and isRecording
\* does not become true, and playSound is never started while isRecording or
\* isProcessing is true.
C4_NoRecordingWhileUploading ==
    [][/\ (nextRecording' # nextRecording) => ~isProcessing
       /\ (isRecording' /\ ~isRecording) => ~isProcessing
       /\ Started("playSound") => (~isRecording /\ ~isProcessing)]_vars

\* C5: in every revision that uploads, response.json() is never called on a
\* response whose status is not 2xx, so no handler is past the fetch (at the
\* json or the write await) with such a response.
C5_Non2xxIsHardFailure ==
    \A t \in Suspended : t.pc \in {"json", "write"} => Ok(t.resp)

C7_UploadOnlyWithUri ==
    \A t \in Suspended :
        t.pc \in {"fetch", "json", "write"}
            => /\ Truthy(t.uri)
               /\ t.rec # NoRecording
               /\ t.uri \in GetURIResults(t.rec)

\* C7 witness: a POST is in flight.
C7_Witness == \E t \in Suspended : t.pc = "fetch" /\ Truthy(t.uri)

\* a call of stopRecording, whether it returned at its guard or went on
StopRecordingCalled ==
    returned' = "stopRecording" \/ Started("stopRecording")

\* C8: stopRecording called with no recording held returns without
\* throwing and changes no session state: recordingUri, isRecording,
\* isProcessing, isPlaying, sound, the suspended handlers and the platform.
C8_StopRecordingNoop ==
    [][(StopRecordingCalled /\ recording = NoRecording)
          => /\ returned' = "stopRecording"
             /\ UNCHANGED <<react, tasks, platform>>]_vars

\* C8 witness: stopRecording was just called with no recording held, after
\* an earlier recording had left its URI.
C8_Witness ==
    /\ returned = "stopRecording"
    /\ recording = NoRecording
    /\ Truthy(recordingUri)

\* a call of playSound, whether it returned at its guard or went on
PlaySoundCalled ==
    returned' = "playSound" \/ Started("playSound")

\* C9: playSound called while recordingUri is null acquires no playback
\* resource: no handler is suspended at Audio.Sound.createAsync, no sound is
\* created, and sound and isPlaying are unchanged.
C9_PlaySoundWithoutUri ==
    [][(PlaySoundCalled /\ recordingUri = NullUri)
          => /\ returned' = "playSound"
             /\ UNCHANGED <<react, tasks, platform>>]_vars

\* C9 witness: playSound was just called before any recording was stopped.
C9_Witness ==
    /\ returned = "playSound"
    /\ recordingUri = NullUri
    /\ nextRecording = 0
    /\ sound = NoSound /\ ~isPlaying

\* C10: after a permission request that did not return 'granted',
\* startRecording goes no further: no handler is at setAudioModeAsync or at
\* Audio.Recording.createAsync without the permission.
C10_DeniedPermissionStopsStart ==
    \A t \in Suspended :
        (t.op = "startRecording" /\ t.pc \in {"mode", "create"})
            => micPermission = "granted"


\* the response of the upload t is 2xx, JSON, with a midi field and without
\* an error
MidiDelivered(t) ==
    /\ t.pc \in {"json", "write"}
    /\ Ok(t.resp)
    /\ t.resp.body.json
    /\ ~HasError(t.resp.body)
    /\ HasMidi(t.resp.body)

\* C11: for a 2xx JSON response with a non-empty midi and no error,
\* processAudio goes from the decoded body to writeAsStringAsync without
\* reporting anything, and when the write resolves the artifact holds exactly
\* the Base64-decoded payload (the bytes 'ABC' for "QUJD", 'AB' for "QUI="),
\* no error is reported and isProcessing is false; the only other outcome is
\* a write the file system rejected.
C11_MidiStored ==
    [][\A t \in Suspended :
          (MidiDelivered(t) /\ Stepped(t))
              => /\ t.pc = "json"
                     => /\ tasks' = (tasks (-) SetToBag({t}))
                                        (+) SetToBag({[t EXCEPT !.pc = "write"]})
                        /\ log' = NoLog
                        /\ error' = error
                 /\ t.pc = "write"
                     => /\ tasks' = tasks (-) SetToBag({t})
                        /\ isProcessing' = FALSE
                        /\ \/ /\ log' = NoLog
                              /\ reports' = 0
                              /\ error' = error
                              /\ artifact' = Base64Decode(t.resp.body.midi)
                              /\ t.resp.body.midi = MidiABC => artifact' = <<65, 66, 67>>
                              /\ t.resp.body.midi = MidiAB => artifact' = <<65, 66>>
                           \/ /\ Contains(log', PlatformFailure)
                              /\ artifact' = artifact]_vars

\* C11 witness: the two bytes of a padded payload were written, nothing was
\* reported and the upload is over.
C11_Witness ==
    /\ artifact = <<65, 66>>
    /\ log = NoLog
    /\ ~isProcessing
    /\ tasks = EmptyBag


\* C12: a run of processAudio that ends without a failure, with the same URI
\* and the same response as the run before it, which had ended without a
\* failure too, leaves the artifact with the content the first run left and
\* the session in the state the first run left.
C12_Idempotent ==
    [][\A t \in Suspended :
          (/\ t.op = "processAudio"
           /\ tasks' = tasks (-) SetToBag({t})
           /\ log' = NoLog
           /\ RunsAgain(t))
              => /\ artifact' = lastRun.artifact
                 /\ react' = lastRun.react]_vars

\* C12 witness: the second of two runs with the same URI and the same
\* response carrying a payload has ended, and the artifact holds the payload
\* once.
C12_Witness ==
    /\ lastRun.ok
    /\ lastRun.again
    /\ Ok(lastRun.resp)
    /\ lastRun.resp.body.midi = MidiABC
    /\ artifact = <<65, 66, 67>>
    /\ tasks = EmptyBag


\* the upload t fails in the step: its handler ends and reports a failure
UploadFails(t) ==
    /\ InProcessAudio(t)
    /\ t.pc \in {"fetch", "json", "write"}
    /\ tasks' = tasks (-) SetToBag({t})
    /\ log' # NoLog

\* the play button is rendered and not disabled
PlayEnabled == PlayRendered /\ ~PlayDisabled

\* C13: when an upload fails (network error, refused status, body that is not
\* JSON, error field, rejected write), recordingUri is left as it was and is
\* not null, and once processAudio has returned the play button is enabled.
C13_FailedUploadKeepsRecording ==
    [][\A t \in Suspended :
          UploadFails(t)
              => /\ recordingUri' = recordingUri
                 /\ Truthy(recordingUri')
                 /\ PlayEnabled']_vars


\* C14: when stopAndUnloadAsync fails inside stopRecording, the failure is
\* recorded and the session is back in Idle after the step: isRecording is
\* false and no recording is held.
C14_StopFailureReturnsToIdle ==
    [][\A t \in Suspended :
          (/\ t.op = "stopRecording" /\ t.pc = "stop"
           /\ Stepped(t)
           /\ Contains(log', "Failed to stop recording"))
              => /\ ~isRecording'
                 /\ recording' = NoRecording
                 /\ Tracked => error' # NoError]_vars


\* sound.stopAsync() of the stopSound call t resolves in the step
StopSoundResolves(t) ==
    /\ t.op = "stopSound"
    /\ Stepped(t)
    /\ log' = NoLog

FinishesNaturally(s) ==
    /\ s \in playingSounds
    /\ s \notin playingSounds'
    /\ s \in loadedSounds'
    /\ tasks' = tasks

\* C16: when isPlaying is true and the playing sound finishes naturally, the
\* playback-status callback sets isPlaying to false: isPlaying is false after
\* the step in which the sound reaches its end.
C16_FinishClearsIsPlaying ==
    [][\A s \in playingSounds :
          (isPlaying /\ FinishesNaturally(s)) => ~isPlaying']_vars


\* an upload is in flight: a handler waits in processAudio
UploadPending ==
    \E t \in Suspended : InProcessAudio(t) /\ t.pc \in {"fetch", "json", "write"}

\* C17: provided the pending fetch, response.json() or write settles, every
\* upload that has started is followed by a state in which isProcessing is
\* false and the record button is enabled again.
C17_UploadEnds ==
    (UploadPending \/ isProcessing) ~> (~isProcessing /\ ~RecordDisabled)

\* C17 witness: an upload has just ended in a failure and isProcessing is
\* false.
C17_Witness ==
    /\ Contains(log, "Failed to process audio")
    /\ ~UploadPending
    /\ ~isProcessing
    /\ ~RecordDisabled


\* C18: after the component is unmounted, once the handlers that were in
\* flight have ended and the unloads the cleanup issued are done, no
\* Audio.Sound is loaded.
C18_UnmountUnloadsSounds ==
    (~mounted /\ tasks = EmptyBag /\ pendingUnloads = {}) => loadedSounds = {}


\* a handler caught a failure in the step: it wrote to console.error
FailureCaught == log' # NoLog /\ tasks' # tasks

\* the handler t ends in the step where its try block would have gone on:
\* an await it waited for rejected, or it threw
EndsInCatch(t) ==
    /\ tasks' = tasks (-) SetToBag({t})
    /\ \/ t.pc \in {"perm", "mode", "fetch", "unload", "createSound", "play"}
       \/ t.pc = "create" /\ nextRecording' = nextRecording
       \/ t.pc = "stop" /\ liveRecordings' = liveRecordings
       \/ t.pc = "json" /\ (~t.resp.body.json \/ HasError(t.resp.body))

\* C19: in "tracked", every step in which a handler catches a failure sets
\* error to the message it reports, which is not null, and invokes onError
\* once; the handler ends in that step, so that no enclosing handler reports
\* the failure again, and no step invokes onError more than once. The step in
\* which a new recording is created sets error to null.
C19_FailuresReportedOnce ==
    [][Tracked =>
          /\ reports' <= 1
          /\ \A t \in Suspended : EndsInCatch(t) => FailureCaught
          /\ FailureCaught
                => /\ error' # NoError
                   /\ error' = log'
                   /\ reports' = 1
                   /\ \E t \in Suspended : tasks' = tasks (-) SetToBag({t})
          /\ ~FailureCaught => reports' = 0
          /\ nextRecording' # nextRecording => error' = NoError]_vars

\* C19 witness: in "tracked" the failure of an upload was just reported: the
\* error state holds its message and onError was invoked once.
C19_Witness ==
    /\ Tracked
    /\ error # NoError
    /\ Contains(error, "Failed to process audio")
    /\ reports = 1
    /\ ~isProcessing

\* C20: in every state isRecording is true exactly when a recording is held;
\* the two change only together, in the step of startRecording that created
\* the recording (both set) or in the step of stopRecording in which
\* stopAndUnloadAsync resolved (both cleared).
C20_FlagMatchesHandle ==
    /\ [](isRecording <=> recording # NoRecording)
    /\ [][(recording' # recording \/ isRecording' # isRecording)
             => \E t \in Suspended :
                   /\ Stepped(t)
                   /\ \/ /\ t.op = "startRecording" /\ t.pc = "create"
                         /\ recording' = nextRecording'
                         /\ recording' \in liveRecordings' \ liveRecordings
                         /\ isRecording'
                      \/ /\ t.op = "stopRecording" /\ t.pc = "stop"
                         /\ t.rec \in liveRecordings \ liveRecordings'
                         /\ recording' = NoRecording
                         /\ ~isRecording']_vars

\* C20 witness: a recording was started and stopped and the next one is in
\* progress: the flag is set and its handle is held.
C20_Witness ==
    /\ isRecording
    /\ recording = 2
    /\ recording \in liveRecordings
    /\ 1 \notin liveRecordings


\* the positions in the effects of a step at which `call` was made
CallsOf(eff, call) == {k \in 1..Len(eff) : eff[k].call = call}

\* the stopRecording call t finalizes its recording in the step, with a URI
\* that is not empty
FinalizesWithUri(t) ==
    /\ t.op = "stopRecording" /\ t.pc = "stop"
    /\ Stepped(t)
    /\ t.rec \in liveRecordings \ liveRecordings'
    /\ Truthy(recordingUri')

\* C21: a step in which stopRecording finalizes a recording with a non-empty
\* URI invokes onRecordingComplete exactly once, with that URI, after
\* setRecordingUri was called with it and, in the uploading revisions, before
\* the one fetch of the upload, which carries the same URI and which the
\* handler then waits for; no other step (a failed finalize, an empty or null
\* URI, any other handler) invokes onRecordingComplete.
C21_CompleteOncePerRecording ==
    [][LET done == CallsOf(effects', "onRecordingComplete")
           set == CallsOf(effects', "setRecordingUri")
           sent == CallsOf(effects', "fetch")
       IN  IF \E t \in Suspended : FinalizesWithUri(t)
           THEN \A t \in Suspended :
                   FinalizesWithUri(t)
                       => /\ Cardinality(done) = 1
                          /\ \A k \in done :
                                /\ effects'[k].uri = recordingUri'
                                /\ effects'[k].uri \in GetURIResults(t.rec)
                                /\ \E j \in set : j < k /\ effects'[j].uri = effects'[k].uri
                                /\ \A j \in sent : k < j /\ effects'[j].uri = effects'[k].uri
                                /\ Uploads
                                     => /\ Cardinality(sent) = 1
                                        /\ tasks' = (tasks (-) SetToBag({t})) (+)
                                              SetToBag({[t EXCEPT !.pc = "fetch",
                                                                  !.uri = effects'[k].uri]})
                                /\ ~Uploads => sent = {}
           ELSE done = {}]_vars

\* C21 witness: stopRecording has just finalized the first recording:
\* onRecordingComplete got its URI, recordingUri holds it and the upload of
\* the same URI waits for its fetch.
C21_Witness ==
    /\ CallsOf(effects, "onRecordingComplete") # {}
    /\ \A k \in CallsOf(effects, "onRecordingComplete") : effects[k].uri = FileUri(1)
    /\ recordingUri = FileUri(1)
    /\ \E t \in Suspended : t.pc = "fetch" /\ t.uri = FileUri(1)

====
